---- MODULE Spec2Model ----
(***************************************************************************)
(* Rental order service (services/order_services.py) over a PostgreSQL     *)
(* "orders" table reached through SQLAlchemy sessions.                     *)
(*                                                                         *)
(* Time is counted in whole hours.  A Python datetime is a record          *)
(* [wall, aware, off]: the wall-clock hour, whether tzinfo is set, and the *)
(* UTC offset in hours.  A stored timestamptz is the instant wall - off.   *)
(* A str is a sequence of one-character strings.  Python None in an        *)
(* optional argument is the empty tuple and a given value v is <<v>>.      *)
(***************************************************************************)
EXTENDS Integers, Sequences, FiniteSets, TLC

\* ------------------------------------------------------------------ bounds
MaxNow == 1          \* the clock stops ticking here
MaxOrders == 2       \* createOrder is not issued once the table holds this many rows
MaxPending == 1      \* nor once the caller's session holds this many pending instances
MaxT == 4            \* the instants of the ranges handed to _merge_time_ranges: 0..MaxT
MaxLen == 3          \* and the length of the lists of them

\* ------------------------------------------------------------- domain types
RESERVED == "reserved"
PAID == "paid"
SHIPPED == "shipped"
OVERDUE == "overdue"
SUCCESSFUL == "successful"
CANCELED == "canceled"

OrderStatus == {RESERVED, PAID, SHIPPED, OVERDUE, SUCCESSFUL, CANCELED}
\* canceled left out of the terminal statuses
TERMINAL_STATUSES_Finished == {SUCCESSFUL}

TERMINAL_STATUSES == {SUCCESSFUL, CANCELED}
OCCUPYING_STATUSES == {RESERVED, PAID, SHIPPED, OVERDUE}

DEFAULT_BUFFER_HOURS == 3

None == <<>>
Some(v) == <<v>>
IsNone(x) == x = <<>>
Get(x) == x[1]

\* ---------------------------------------------------------------- datetimes
Dt(w, a, o) == [wall |-> w, aware |-> a, off |-> o]
UtcDt(i) == Dt(i, TRUE, 0)
Instant(dt) == dt.wall - dt.off

\* tzinfo replaced by UTC whatever it was
_to_utc_Replace(dt) == Dt(dt.wall, TRUE, 0)

\* naive datetimes are taken as UTC, aware ones are converted to UTC
_to_utc(dt) == IF ~dt.aware THEN Dt(dt.wall, TRUE, 0) ELSE Dt(dt.wall - dt.off, TRUE, 0)

_iso_to_dt_utc(value) == _to_utc(value)

\* only start_at > end_at refused
_validate_time_range_Strict(start_at, end_at) == Instant(start_at) <= Instant(end_at)

\* start_at >= end_at raises ValidationError
_validate_time_range(start_at, end_at) == Instant(start_at) < Instant(end_at)

\* --------------------------------------------------------------------- str
UpperChar(ch) ==
    CASE ch = "w" -> "W"
      [] ch = "b" -> "B"
      [] ch = "s" -> "S"
      [] OTHER -> ch

upper(s) == [i \in 1..Len(s) |-> UpperChar(s[i])]

RECURSIVE lstrip(_)
lstrip(s) == IF s # <<>> /\ Head(s) = " " THEN lstrip(Tail(s)) ELSE s

RECURSIVE rstrip(_)
rstrip(s) == IF s # <<>> /\ s[Len(s)] = " " THEN rstrip(SubSeq(s, 1, Len(s) - 1)) ELSE s

strip(s) == rstrip(lstrip(s))

\* the blanks around the sku kept
NormalizeSku_Upper(sku) == upper(sku)

NormalizeSku(sku) == upper(strip(sku))

\* ------------------------------------------------------ the orders table
(***************************************************************************)
(* A row of the table.  start_at/end_at/created_at/updated_at are instants *)
(* (timestamptz).  The table definition itself (db/init/init.sql) sets the *)
(* constraints: order_id unique, a CHECK that a shipped row carries a      *)
(* locker_code, and an exclusion constraint on (sku, occupied) over the    *)
(* rows that are not terminal, occupied being the generated range          *)
(* [start_at - buffer_hours, end_at + buffer_hours).                       *)
(***************************************************************************)
\* the buffer added behind the order only
Occupied_After(row) == [lo |-> row.start_at, hi |-> row.end_at + row.buffer_hours]

Occupied(row) == [lo |-> row.start_at - row.buffer_hours, hi |-> row.end_at + row.buffer_hours]

\* the && operator on half-open ranges; an empty range overlaps nothing
RangesOverlap(a, b) == a.lo < a.hi /\ b.lo < b.hi /\ a.lo < b.hi /\ b.lo < a.hi

\* the range constructor refuses a lower bound above the upper bound
RangeError(row) == Occupied(row).lo > Occupied(row).hi

CheckViolation(row) == row.status = SHIPPED /\ row.locker_code = ""

UniqueViolation(others, row) == \E r \in others : r.order_id = row.order_id

\* the exclusion taken over the bare [start_at, end_at) ranges
ExclusionViolation_Unbuffered(others, row) ==
    /\ row.status \notin TERMINAL_STATUSES
    /\ \E r \in others :
          /\ r.status \notin TERMINAL_STATUSES
          /\ r.sku = row.sku
          /\ r.start_at < row.end_at /\ row.start_at < r.end_at

ExclusionViolation(others, row) ==
    /\ row.status \notin TERMINAL_STATUSES
    /\ \E r \in others :
          /\ r.status \notin TERMINAL_STATUSES
          /\ r.sku = row.sku
          /\ RangesOverlap(Occupied(r), Occupied(row))

\* What the statement writing `row` beside the rows `others` raises: the
\* generated range is computed first (a DataError when it cannot be built), and
\* CHECK constraints are evaluated on the tuple before the indexes are touched.
IntegrityError(others, row) ==
    IF RangeError(row) THEN "DataError"
    ELSE IF CheckViolation(row) THEN "CheckViolation"
    ELSE IF UniqueViolation(others, row) THEN "UniqueViolation"
    ELSE IF ExclusionViolation(others, row) THEN "ExclusionViolation"
    ELSE "none"

\* ------------------------------------------------------------------ state
ToolCallers == {"t1", "t2"}      \* call the service without a session (app/tools.py)
SessionCallers == {"s1"}         \* pass their own session as client (tests)

VARIABLES
    db,      \* the committed rows of the orders table
    now,     \* the clock
    pc,      \* pc[c]: where caller c stands in its call
    op,      \* op[c]: the call c issued last and its arguments
    obj,     \* obj[c]: the OrderModel instance the call works on, with unflushed changes
    sess,    \* sess[c]: the Session the call uses
    res,     \* res[c]: how the last call of c ended and the Order it returned
    rag      \* rules_rag, the RulesRAG instance of the process (app/rag.py)

vars == <<db, now, pc, op, obj, sess, res, rag>>

Callers == DOMAIN pc

\* a Session: whether a transaction is begun, the pending instances, and the
\* instances marked for deletion
FreshSession == [in_tx |-> FALSE, new |-> {}, deleted |-> {}]

NoObj == <<>>
NoOrder == <<>>
NoPatch == <<>>
NoInput == <<>>

Result(kind, order) == [kind |-> kind, order |-> order]
Call(name, order_id, patch, input) ==
    [name |-> name, order_id |-> order_id, patch |-> patch, input |-> input]

\* RulesRAG.__init__ (app/rag.py lines 30-34); `entered` counts how often the
\* body of _init_vectorstore behind line 64 was begun
RulesRAG == [_vectorstore |-> None, _initialized |-> FALSE, _error |-> None,
             _ready |-> FALSE, entered |-> 0]

InitWith(callers) ==
    /\ rag = RulesRAG
    /\ db = {}
    /\ now = 0
    /\ pc = [c \in callers |-> "ready"]
    /\ op = [c \in callers |-> Call("none", "", NoPatch, NoInput)]
    /\ obj = [c \in callers |-> NoObj]
    /\ sess = [c \in callers |-> FreshSession]
    /\ res = [c \in callers |-> Result("none", NoOrder)]

\* one caller going through the tool layer
Init == InitWith({"t1"})

\* ------------------------------------------------------------- sessions
\* get_session(None) opens a session and closes it when the call leaves;
\* get_session(client) hands the caller's session through and leaves it as it is.
get_session_exit(c, session) == IF c \in ToolCallers THEN FreshSession ELSE session

\* a transaction scope of its own only when the session has not begun one
_session_tx(session) == IF session.in_tx THEN "nullcontext" ELSE "begin"

\* Session.execute(select ...) begins the session's transaction
AutoBegin(session) == [session EXCEPT !.in_tx = TRUE]

\* select(OrderModel).where(order_id == ...).limit(1) ... scalar_one_or_none()
_get_data_from_db(order_id) ==
    IF \E r \in db : r.order_id = order_id
    THEN Some(CHOOSE r \in db : r.order_id = order_id)
    ELSE None

_model_to_order(row) ==
    [order_id |-> row.order_id,
     user_name |-> row.user_name,
     user_wechat |-> row.user_wechat,
     sku |-> row.sku,
     start_at_iso |-> _iso_to_dt_utc(UtcDt(row.start_at)),
     end_at_iso |-> _iso_to_dt_utc(UtcDt(row.end_at)),
     buffer_hours |-> row.buffer_hours,
     status |-> row.status,
     locker_code |-> row.locker_code,
     created_at |-> _iso_to_dt_utc(UtcDt(row.created_at)),
     updated_at |-> _iso_to_dt_utc(UtcDt(row.updated_at))]

Return(c, kind, order) ==
    /\ pc' = [pc EXCEPT ![c] = "done"]
    /\ res' = [res EXCEPT ![c] = Result(kind, order)]
    /\ obj' = [obj EXCEPT ![c] = NoObj]

\* ------------------------------------------------------------ createOrder
\* create_order_tool: status defaults to reserved when the caller gives none
StatusArg(in) == IF IsNone(in.status) THEN RESERVED ELSE Get(in.status)

\* buffer_hours taken as unset when it is 0
Payload_Falsy(in) ==
    [order_id |-> in.order_id,
     user_name |-> in.user_name,
     user_wechat |-> in.user_wechat,
     sku |-> NormalizeSku(in.sku),
     start_at |-> Instant(_iso_to_dt_utc(in.start_at)),
     end_at |-> Instant(_iso_to_dt_utc(in.end_at)),
     status |-> StatusArg(in),
     buffer_hours |-> IF IsNone(in.buffer_hours) \/ in.buffer_hours = Some(0)
                      THEN DEFAULT_BUFFER_HOURS ELSE Get(in.buffer_hours),
     locker_code |-> in.locker_code]

\* the payload add_order_to_db builds from its arguments
Payload(in) ==
    [order_id |-> in.order_id,
     user_name |-> in.user_name,
     user_wechat |-> in.user_wechat,
     sku |-> NormalizeSku(in.sku),
     start_at |-> Instant(_iso_to_dt_utc(in.start_at)),
     end_at |-> Instant(_iso_to_dt_utc(in.end_at)),
     status |-> StatusArg(in),
     buffer_hours |-> IF IsNone(in.buffer_hours) THEN DEFAULT_BUFFER_HOURS
                      ELSE Get(in.buffer_hours),
     locker_code |-> in.locker_code]

\* The row the INSERT stores: an attribute left None is not sent and takes the
\* column's server default; created_at and updated_at are now().
InsertedRow(payload, t) ==
    [order_id |-> payload.order_id,
     user_name |-> payload.user_name,
     user_wechat |-> payload.user_wechat,
     sku |-> payload.sku,
     start_at |-> payload.start_at,
     end_at |-> payload.end_at,
     buffer_hours |-> payload.buffer_hours,
     status |-> payload.status,
     locker_code |-> IF IsNone(payload.locker_code) THEN "" ELSE Get(payload.locker_code),
     created_at |-> t,
     updated_at |-> t]

\* an exclusion violation reported as any other storage failure
InsertError_Unsorted(err) == "ConstraintError"

\* a duplicate order_id not told apart from other storage failures
InsertError_NoUnique(err) ==
    CASE err = "ExclusionViolation" -> "ConflictError"
      [] err = "CheckViolation" -> "ConstraintError"
      [] OTHER -> "ConstraintError"

\* the service error add_order_to_db raises for a storage error
InsertError(err) ==
    CASE err = "ExclusionViolation" -> "ConflictError"
      [] err = "UniqueViolation" -> "ConflictError"
      [] err = "CheckViolation" -> "ConstraintError"
      [] OTHER -> "ConstraintError"

\* lines 214-232: normalise, validate, build the payload and the instance
add_order_to_db(c, in) ==
    /\ pc[c] = "ready"
    /\ Cardinality(db) < MaxOrders
    /\ Cardinality(sess[c].new) < MaxPending
    /\ op' = [op EXCEPT ![c] = Call("createOrder", in.order_id, NoPatch, in)]
    /\ IF ~_validate_time_range(_iso_to_dt_utc(in.start_at), _iso_to_dt_utc(in.end_at))
       THEN Return(c, "ValidationError", NoOrder)
       ELSE /\ pc' = [pc EXCEPT ![c] = "add_commit"]
            /\ obj' = [obj EXCEPT ![c] = Payload(in)]
            /\ res' = [res EXCEPT ![c] = Result("none", NoOrder)]
    /\ UNCHANGED <<db, now, rag, sess>>

\* the row of a refused INSERT left behind
add_order_commit_NoRollback(c) ==
    /\ pc[c] = "add_commit"
    /\ LET row == InsertedRow(obj[c], now)
           err == IntegrityError(db, row)
       IN  IF _session_tx(sess[c]) = "begin"
           THEN IF err # "none"
                THEN /\ Return(c, InsertError(err), NoOrder)
                     /\ sess' = [sess EXCEPT ![c] = get_session_exit(c, FreshSession)]
                     /\ db' = IF err = "ExclusionViolation" THEN db \cup {row} ELSE db
                ELSE /\ db' = db \cup {row}
                     /\ sess' = [sess EXCEPT ![c] = [@ EXCEPT !.in_tx = FALSE]]
                     /\ obj' = [obj EXCEPT ![c] = row]
                     /\ pc' = [pc EXCEPT ![c] = "add_refresh"]
                     /\ res' = res
           ELSE /\ sess' = [sess EXCEPT ![c] = [@ EXCEPT !.new = @ \cup {obj[c]}]]
                /\ pc' = [pc EXCEPT ![c] = "add_refresh"]
                /\ UNCHANGED <<db, obj, res>>
    /\ UNCHANGED <<now, rag, op>>

\* lines 233-246: session.add inside _session_tx; a scope of its own commits on
\* leaving (INSERT, COMMIT), a nullcontext leaves the instance pending
add_order_commit(c) ==
    /\ pc[c] = "add_commit"
    /\ LET row == InsertedRow(obj[c], now)
           err == IntegrityError(db, row)
       IN  IF _session_tx(sess[c]) = "begin"
           THEN IF err # "none"
                THEN /\ Return(c, InsertError(err), NoOrder)
                     /\ sess' = [sess EXCEPT ![c] = get_session_exit(c, FreshSession)]
                     /\ db' = db
                ELSE /\ db' = db \cup {row}
                     /\ sess' = [sess EXCEPT ![c] = [@ EXCEPT !.in_tx = FALSE]]
                     /\ obj' = [obj EXCEPT ![c] = row]
                     /\ pc' = [pc EXCEPT ![c] = "add_refresh"]
                     /\ res' = res
           ELSE /\ sess' = [sess EXCEPT ![c] = [@ EXCEPT !.new = @ \cup {obj[c]}]]
                /\ pc' = [pc EXCEPT ![c] = "add_refresh"]
                /\ UNCHANGED <<db, obj, res>>
    /\ UNCHANGED <<now, rag, op>>

\* lines 248-249: session.refresh(order) and the conversion; refresh of an
\* instance that is not persistent raises InvalidRequestError
add_order_refresh(c) ==
    /\ pc[c] = "add_refresh"
    /\ IF obj[c] \in sess[c].new
       THEN /\ Return(c, "InvalidRequestError", NoOrder)
            /\ sess' = [sess EXCEPT ![c] = get_session_exit(c, @)]
       ELSE LET row == _get_data_from_db(obj[c].order_id)
            IN  /\ IF IsNone(row)
                   THEN Return(c, "InvalidRequestError", NoOrder)
                   ELSE Return(c, "ok", _model_to_order(Get(row)))
                /\ sess' = [sess EXCEPT ![c] = get_session_exit(c, AutoBegin(@))]
    /\ UNCHANGED <<db, now, rag, op>>

\* ---------------------------------------------------------- getOrderDetail
\* a missing row handed back as no order instead of raising
get_order_detail_NoRaise(c, order_id) ==
    /\ pc[c] = "ready"
    /\ op' = [op EXCEPT ![c] = Call("getOrderDetail", order_id, NoPatch, NoInput)]
    /\ LET row == _get_data_from_db(order_id)
       IN  IF IsNone(row)
           THEN Return(c, "ok", NoOrder)
           ELSE Return(c, "ok", _model_to_order(Get(row)))
    /\ sess' = [sess EXCEPT ![c] = get_session_exit(c, AutoBegin(@))]
    /\ UNCHANGED <<db, now, rag>>

\* lines 360-365; the select runs in the caller's session or in one of its own
get_order_detail(c, order_id) ==
    /\ pc[c] = "ready"
    /\ op' = [op EXCEPT ![c] = Call("getOrderDetail", order_id, NoPatch, NoInput)]
    /\ LET row == _get_data_from_db(order_id)
       IN  IF IsNone(row)
           THEN Return(c, "NotFoundError", NoOrder)
           ELSE Return(c, "ok", _model_to_order(Get(row)))
    /\ sess' = [sess EXCEPT ![c] = get_session_exit(c, AutoBegin(@))]
    /\ UNCHANGED <<db, now, rag>>

\* datetime.now() / the server's now() advance
Tick ==
    /\ now < MaxNow
    /\ now' = now + 1
    /\ UNCHANGED <<db, pc, op, obj, sess, res, rag>>

\* -------------------------------------------------------------- editOrder
Has(patch, key) == key \in DOMAIN patch

\* created_at and updated_at left in the patch, to be written as instants
NormalizedPatch_KeepStamps(existing, patch) ==
    LET touched == Has(patch, "start_at") \/ Has(patch, "end_at")
        new_start == _iso_to_dt_utc(IF Has(patch, "start_at") THEN patch["start_at"]
                                    ELSE UtcDt(existing.start_at))
        new_end == _iso_to_dt_utc(IF Has(patch, "end_at") THEN patch["end_at"]
                                  ELSE UtcDt(existing.end_at))
        keys == DOMAIN patch \cup (IF touched THEN {"start_at", "end_at"} ELSE {})
    IN  [k \in keys |->
            CASE k = "start_at" -> new_start
              [] k = "end_at" -> new_end
              [] k = "sku" -> NormalizeSku(patch[k])
              [] k \in {"created_at", "updated_at"} -> Instant(_iso_to_dt_utc(patch[k]))
              [] OTHER -> patch[k]]

\* lines 273-283: the patch as edit_order_from_db rewrites it for `existing`
NormalizedPatch(existing, patch) ==
    LET touched == Has(patch, "start_at") \/ Has(patch, "end_at")
        new_start == _iso_to_dt_utc(IF Has(patch, "start_at") THEN patch["start_at"]
                                    ELSE UtcDt(existing.start_at))
        new_end == _iso_to_dt_utc(IF Has(patch, "end_at") THEN patch["end_at"]
                                  ELSE UtcDt(existing.end_at))
        keys == (DOMAIN patch \cup (IF touched THEN {"start_at", "end_at"} ELSE {}))
                  \ {"created_at", "updated_at"}
    IN  [k \in keys |->
            CASE k = "start_at" -> new_start
              [] k = "end_at" -> new_end
              [] k = "sku" -> NormalizeSku(patch[k])
              [] OTHER -> patch[k]]

\* the times validated only when the patch gives both of them
PatchTimesValid_BothOnly(existing, patch) ==
    (Has(patch, "start_at") /\ Has(patch, "end_at")) =>
        _validate_time_range(_iso_to_dt_utc(patch["start_at"]), _iso_to_dt_utc(patch["end_at"]))

\* lines 273-276: the range check over the patched and the stored times
PatchTimesValid(existing, patch) ==
    (Has(patch, "start_at") \/ Has(patch, "end_at")) =>
        _validate_time_range(
            _iso_to_dt_utc(IF Has(patch, "start_at") THEN patch["start_at"]
                           ELSE UtcDt(existing.start_at)),
            _iso_to_dt_utc(IF Has(patch, "end_at") THEN patch["end_at"]
                           ELSE UtcDt(existing.end_at)))

\* lines 290-291: setattr(existing, key, value) for every key of the patch
SetAttrs(existing, patch) ==
    [k \in DOMAIN existing |->
        IF Has(patch, k)
        THEN (IF k \in {"start_at", "end_at"} THEN Instant(patch[k]) ELSE patch[k])
        ELSE existing[k]]

\* the service error edit_order_from_db raises for a storage error
UpdateError(err) ==
    CASE err = "ExclusionViolation" -> "ConflictError"
      [] err = "CheckViolation" -> "ConstraintError"
      [] OTHER -> "ConstraintError"

\* the patch not looked at before the order is loaded
EditEntry_Unchecked(c, name, order_id, patch) ==
    /\ op' = [op EXCEPT ![c] = Call(name, order_id, patch, NoInput)]
    /\ pc' = [pc EXCEPT ![c] = "edit_load"]
    /\ res' = [res EXCEPT ![c] = Result("none", NoOrder)]
    /\ obj' = obj
    /\ UNCHANGED <<db, now, rag, sess>>

\* lines 263-264
EditEntry(c, name, order_id, patch) ==
    /\ op' = [op EXCEPT ![c] = Call(name, order_id, patch, NoInput)]
    /\ IF DOMAIN patch = {}
       THEN Return(c, "ValidationError", NoOrder)
       ELSE /\ pc' = [pc EXCEPT ![c] = "edit_load"]
            /\ res' = [res EXCEPT ![c] = Result("none", NoOrder)]
            /\ obj' = obj
    /\ UNCHANGED <<db, now, rag, sess>>

edit_order_from_db(c, order_id, patch) ==
    /\ pc[c] = "ready"
    /\ EditEntry(c, "editOrder", order_id, patch)

\* lines 266-291: load the row, reject, rewrite the patch, set the attributes
edit_order_load(c) ==
    /\ pc[c] = "edit_load"
    /\ LET found == _get_data_from_db(op[c].order_id)
           patch == op[c].patch
           session == AutoBegin(sess[c])
       IN  IF IsNone(found)
           THEN /\ Return(c, "NotFoundError", NoOrder)
                /\ sess' = [sess EXCEPT ![c] = get_session_exit(c, session)]
           ELSE LET existing == Get(found) IN
                IF existing.status \in TERMINAL_STATUSES
                THEN /\ Return(c, "TerminalOrderError", NoOrder)
                     /\ sess' = [sess EXCEPT ![c] = get_session_exit(c, session)]
                ELSE IF ~PatchTimesValid(existing, patch)
                THEN /\ Return(c, "ValidationError", NoOrder)
                     /\ sess' = [sess EXCEPT ![c] = get_session_exit(c, session)]
                ELSE IF DOMAIN NormalizedPatch(existing, patch) = {}
                THEN /\ Return(c, "ValidationError", NoOrder)
                     /\ sess' = [sess EXCEPT ![c] = get_session_exit(c, session)]
                ELSE /\ obj' = [obj EXCEPT ![c] =
                                   [ctx |-> _session_tx(session),
                                    row |-> SetAttrs(existing, NormalizedPatch(existing, patch))]]
                     /\ sess' = [sess EXCEPT ![c] = session]
                     /\ pc' = [pc EXCEPT ![c] = "edit_commit"]
                     /\ res' = res
    /\ UNCHANGED <<db, now, rag, op>>

\* lines 288-306: leaving _session_tx (UPDATE and COMMIT when the scope is the
\* call's own, nothing under a nullcontext), then session.refresh(existing),
\* which drops what the instance holds unflushed and reads the row again
edit_order_commit(c) ==
    /\ pc[c] = "edit_commit"
    /\ LET stored == {r \in db : r.order_id = op[c].order_id}
           others == db \ stored
           row == obj[c].row
           err == IntegrityError(others, row)
       IN  IF obj[c].ctx = "begin" /\ err # "none"
           THEN /\ Return(c, UpdateError(err), NoOrder)
                /\ db' = db
           ELSE LET after == IF obj[c].ctx = "begin" THEN others \cup {row} ELSE db
                    read == {r \in after : r.order_id =
                                (IF obj[c].ctx = "begin" THEN row.order_id ELSE op[c].order_id)}
                IN  /\ db' = after
                    /\ IF read = {}
                       THEN Return(c, "InvalidRequestError", NoOrder)
                       ELSE Return(c, "ok", _model_to_order(CHOOSE r \in read : TRUE))
    /\ sess' = [sess EXCEPT ![c] = get_session_exit(c, AutoBegin(@))]
    /\ UNCHANGED <<now, rag, op>>

\* ------------------------------------------- cancel, paid, finish, deliver
StatusPatch(status) == [k \in {"status"} |-> status]

\* lines 319-329
cancel_order(c, order_id, hard_delete) ==
    /\ pc[c] = "ready"
    /\ IF hard_delete
       THEN LET found == _get_data_from_db(order_id)
                session == AutoBegin(sess[c])
            IN  /\ op' = [op EXCEPT ![c] = Call("hardDelete", order_id, NoPatch, NoInput)]
                /\ IF IsNone(found)
                   THEN /\ Return(c, "NotFoundError", NoOrder)
                        /\ sess' = [sess EXCEPT ![c] = get_session_exit(c, session)]
                        /\ db' = db
                   ELSE /\ Return(c, "ok", _model_to_order(Get(found)))
                        /\ IF _session_tx(session) = "begin"
                           THEN /\ db' = db \ {Get(found)}
                                /\ sess' = [sess EXCEPT ![c] =
                                       get_session_exit(c, [session EXCEPT !.in_tx = FALSE])]
                           ELSE /\ db' = db
                                /\ sess' = [sess EXCEPT ![c] = get_session_exit(c,
                                       [session EXCEPT !.deleted = @ \cup {order_id}])]
                /\ now' = now /\ rag' = rag
       ELSE EditEntry(c, "cancelOrder", order_id, StatusPatch(CANCELED))

\* lines 332-334
mark_order_paid(c, order_id) ==
    /\ pc[c] = "ready"
    /\ EditEntry(c, "markPaid", order_id, StatusPatch(PAID))

\* lines 337-341
finish_order(c, order_id) ==
    /\ pc[c] = "ready"
    /\ EditEntry(c, "finishOrder", order_id, StatusPatch(SUCCESSFUL))

\* the locker_code not looked at
deliver_order_Unchecked(c, order_id, locker_code) ==
    /\ pc[c] = "ready"
    /\ EditEntry(c, "deliverOrder", order_id,
                 [k \in {"status", "locker_code"} |->
                     IF k = "status" THEN SHIPPED ELSE locker_code])

\* lines 344-357
deliver_order(c, order_id, locker_code) ==
    /\ pc[c] = "ready"
    /\ IF locker_code = ""
       THEN /\ op' = [op EXCEPT ![c] =
                        Call("deliverOrder", order_id,
                             [k \in {"locker_code"} |-> locker_code], NoInput)]
            /\ Return(c, "ValidationError", NoOrder)
            /\ UNCHANGED <<db, now, rag, sess>>
       ELSE EditEntry(c, "deliverOrder", order_id,
                      [k \in {"status", "locker_code"} |->
                          IF k = "status" THEN SHIPPED ELSE locker_code])

\* the caller takes the result of its call and is free to issue the next
Ack(c) ==
    /\ pc[c] = "done"
    /\ pc' = [pc EXCEPT ![c] = "ready"]
    /\ op' = [op EXCEPT ![c] = Call("none", "", NoPatch, NoInput)]
    /\ res' = [res EXCEPT ![c] = Result("none", NoOrder)]
    /\ UNCHANGED <<db, now, rag, obj, sess>>

\* ----------------------------------------------------------------- inputs
OrderIds == {"o1", "o2"}
LockerCodes == {"", "L1"}

NaiveDt(w) == Dt(w, FALSE, 0)
PlusOne(w) == Dt(w, TRUE, 1)        \* an aware datetime one hour east of UTC

\* [0,1) naive, [1,2) given east of UTC, [7,8) in UTC, and three invalid ranges
ValidTimes == {<<NaiveDt(0), NaiveDt(1)>>, <<PlusOne(2), PlusOne(3)>>, <<UtcDt(7), UtcDt(8)>>}
InvalidTimes == {<<UtcDt(1), UtcDt(1)>>, <<UtcDt(1), PlusOne(2)>>, <<NaiveDt(2), UtcDt(1)>>}

CreateInput(id, sku, times, status, buffer, locker) ==
    [order_id |-> id, user_name |-> "Alice", user_wechat |-> "wx_alice", sku |-> sku,
     start_at |-> times[1], end_at |-> times[2],
     status |-> status, buffer_hours |-> buffer, locker_code |-> locker]

\* <<status, buffer_hours, locker_code>> as given to createOrder
Options ==
    {<<None, None, None>>,
     <<Some(PAID), Some(0), None>>,
     <<Some(SHIPPED), None, Some("L1")>>,
     <<Some(SHIPPED), None, None>>,
     <<Some(OVERDUE), Some(0), None>>,
     <<Some(CANCELED), None, None>>,
     <<Some(SUCCESSFUL), Some(0), None>>}

CreateInputs ==
    {CreateInput(id, <<"w">>, t, o[1], o[2], o[3]) : id \in OrderIds, t \in ValidTimes, o \in Options}
    \cup {CreateInput(id, sku, t, None, None, None) :
            id \in OrderIds, sku \in {<<" ", "W", " ">>, <<"b">>}, t \in ValidTimes \cup InvalidTimes}
    \cup {CreateInput(id, <<"w">>, t, None, None, None) : id \in OrderIds, t \in InvalidTimes}


PatchInputs ==
    {<<>>}
    \cup {StatusPatch(st) : st \in OrderStatus}
    \cup {[status |-> SHIPPED, locker_code |-> "L1"]}
    \cup {[locker_code |-> l] : l \in LockerCodes}
    \cup {[start_at |-> UtcDt(8)], [end_at |-> UtcDt(0)], [start_at |-> PlusOne(1)]}
    \cup {[start_at |-> UtcDt(1), end_at |-> UtcDt(2)], [start_at |-> UtcDt(2), end_at |-> NaiveDt(1)]}
    \cup {[sku |-> <<"b">>], [buffer_hours |-> 0], [created_at |-> UtcDt(1)],
          [user_name |-> "Bob"], [order_id |-> "o2"],
          [created_at |-> UtcDt(1), user_name |-> "Bob"]}

\* --------------------------------------------------------- suggestTimeSlots
HoursPerDay == 24               \* timedelta(days=1), instants being counted in hours
DefaultSlotHours == 3           \* the renting slot taken when no end is given
MaxWindowDays == 7              \* window_days is clamped to [0, MaxWindowDays]

Max(a, b) == IF a >= b THEN a ELSE b
Min(a, b) == IF a <= b THEN a ELSE b

TimeRange(start_at, end_at) == [start_at |-> start_at, end_at |-> end_at]

\* ranges that touch left apart: merged only when current starts before last ends
RECURSIVE MergeLoop_Strict(_, _)
MergeLoop_Strict(merged, rest) ==
    IF rest = <<>> THEN merged
    ELSE LET current == Head(rest)
             last == merged[Len(merged)]
         IN  IF current.start_at < last.end_at
             THEN MergeLoop_Strict([merged EXCEPT ![Len(merged)] =
                                       TimeRange(last.start_at, Max(last.end_at, current.end_at))],
                                   Tail(rest))
             ELSE MergeLoop_Strict(Append(merged, current), Tail(rest))

\* lines 96-101: the loop of _merge_time_ranges over ranges[1:]
RECURSIVE MergeLoop(_, _)
MergeLoop(merged, rest) ==
    IF rest = <<>> THEN merged
    ELSE LET current == Head(rest)
             last == merged[Len(merged)]
         IN  IF current.start_at <= last.end_at
             THEN MergeLoop([merged EXCEPT ![Len(merged)] =
                                TimeRange(last.start_at, Max(last.end_at, current.end_at))],
                            Tail(rest))
             ELSE MergeLoop(Append(merged, current), Tail(rest))

\* each range compared with the one before it in the list, not with the
\* last merged one
RECURSIVE MergeLoopPrev(_, _, _)
MergeLoopPrev(merged, prev, rest) ==
    IF rest = <<>> THEN merged
    ELSE LET current == Head(rest)
             last == merged[Len(merged)]
         IN  IF current.start_at <= prev.end_at
             THEN MergeLoopPrev([merged EXCEPT ![Len(merged)] =
                                    TimeRange(last.start_at, Max(last.end_at, current.end_at))],
                                current, Tail(rest))
             ELSE MergeLoopPrev(Append(merged, current), current, Tail(rest))

_merge_time_ranges_Prev(ranges) ==
    IF ranges = <<>> THEN <<>> ELSE MergeLoopPrev(<<Head(ranges)>>, Head(ranges), Tail(ranges))

_merge_time_ranges(ranges) ==
    IF ranges = <<>> THEN <<>> ELSE MergeLoop(<<Head(ranges)>>, Tail(ranges))

\* the status of the rows left out of the condition
OccupyingRowsOf_AnyStatus(rows, sku) == {r \in rows : r.sku = sku}

\* lines 156-159: the where clause, the sku asked about and an occupying status
OccupyingRowsOf(rows, sku) == {r \in rows : r.sku = sku /\ r.status \in OCCUPYING_STATUSES}

\* lines 153-163: the select over the orders table
OccupyingRows(sku) == OccupyingRowsOf(db, sku)

\* the range of a row taken without its buffer
RowRange_Bare(row) == TimeRange(row.start_at, row.end_at)

\* lines 167-172: the range of a row, widened by buffer_hours at both ends
RowRange(row) ==
    IF row.buffer_hours # 0
    THEN TimeRange(row.start_at - row.buffer_hours, row.end_at + row.buffer_hours)
    ELSE TimeRange(row.start_at, row.end_at)

\* lines 173-174: rows whose range lies outside the window are skipped
InWindow(range, window_start, window_end) ==
    ~(range.end_at <= window_start \/ range.start_at >= window_end)

\* line 177: occupied.sort(key=lambda r: r.start_at), over the rows kept
RECURSIVE SortByStart(_)
SortByStart(rows) ==
    IF rows = {} THEN <<>>
    ELSE LET m == CHOOSE x \in rows : \A y \in rows : RowRange(x).start_at <= RowRange(y).start_at
         IN  <<RowRange(m)>> \o SortByStart(rows \ {m})

\* the walk stopping at the last block, the gap behind it left out
RECURSIVE FreeSlots_NoTail(_, _, _)
FreeSlots_NoTail(blocks, cursor, window_end) ==
    IF blocks = <<>> THEN <<>>
    ELSE LET block == Head(blocks)
         IN  (IF cursor < block.start_at THEN <<TimeRange(cursor, block.start_at)>> ELSE <<>>)
             \o FreeSlots_NoTail(Tail(blocks), Max(cursor, block.end_at), window_end)

\* lines 180-187: the cursor walking the merged blocks
RECURSIVE FreeSlots(_, _, _)
FreeSlots(blocks, cursor, window_end) ==
    IF blocks = <<>>
    THEN (IF cursor < window_end THEN <<TimeRange(cursor, window_end)>> ELSE <<>>)
    ELSE LET block == Head(blocks)
         IN  (IF cursor < block.start_at THEN <<TimeRange(cursor, block.start_at)>> ELSE <<>>)
             \o FreeSlots(Tail(blocks), Max(cursor, block.end_at), window_end)

\* a gap as long as the duration, and no longer, dropped
Fits_Longer(slot, duration) == slot.end_at - slot.start_at > duration

\* every gap kept, whatever its length
Fits_Any(slot, duration) == TRUE

\* line 190: a slot is kept when it can hold the duration asked for
Fits(slot, duration) == slot.end_at - slot.start_at >= duration

\* lines 105-116: what the text names: the sku, the window and one line per slot
_format_slots_text(sku, window_start, window_end, slots) ==
    [sku |-> NormalizeSku(sku),
     window_start |-> UtcDt(window_start),
     window_end |-> UtcDt(window_end),
     slots |-> [i \in 1..Len(slots) |->
                  [start_at |-> UtcDt(slots[i].start_at), end_at |-> UtcDt(slots[i].end_at)]]]

\* window_days bounded from above only
ClampDays_Min(window_days) == Min(MaxWindowDays, window_days)

\* lines 132-149: the window asked for
ClampDays(window_days) == Max(0, Min(MaxWindowDays, window_days))
ExpectedStart(rq) == Instant(_iso_to_dt_utc(rq.expected_start_at))
ExpectedEnd(rq) ==
    IF IsNone(rq.expected_end_at) THEN ExpectedStart(rq) + DefaultSlotHours
    ELSE Instant(_iso_to_dt_utc(Get(rq.expected_end_at)))
WindowStart(rq, t) == Max(t, ExpectedStart(rq) - HoursPerDay * ClampDays(rq.window_days))
WindowEnd(rq) == ExpectedEnd(rq) + HoursPerDay * ClampDays(rq.window_days)

\* lines 165-192: from the rows read to the slots listed
SlotsListed(rows, window_start, window_end, duration) ==
    LET kept == {r \in rows : InWindow(RowRange(r), window_start, window_end)}
        merged == _merge_time_ranges(SortByStart(kept))
        free_slots == FreeSlots(merged, window_start, window_end)
    IN  SelectSeq(free_slots, LAMBDA slot : Fits(slot, duration))

\* the select flushing the instances pending in the session into the table
suggest_time_slots_text_Autoflush(c, rq) ==
    /\ pc[c] = "ready"
    /\ op' = [op EXCEPT ![c] = Call("suggestTimeSlots", "", NoPatch, rq)]
    /\ Return(c, "text",
              _format_slots_text(NormalizeSku(rq.sku), WindowStart(rq, now), WindowEnd(rq), <<>>))
    /\ db' = db \cup {InsertedRow(p, now) : p \in sess[c].new}
    /\ sess' = [sess EXCEPT ![c] = get_session_exit(c, [AutoBegin(@) EXCEPT !.new = {}])]
    /\ now' = now /\ rag' = rag

\* lines 119-192
suggest_time_slots_text(c, rq) ==
    /\ pc[c] = "ready"
    /\ op' = [op EXCEPT ![c] = Call("suggestTimeSlots", "", NoPatch, rq)]
    /\ LET sku == NormalizeSku(rq.sku)
           window_start == WindowStart(rq, now)
           window_end == WindowEnd(rq)
           duration == ExpectedEnd(rq) - ExpectedStart(rq)
       IN  IF /\ ~IsNone(rq.expected_end_at)
              /\ ~_validate_time_range(_iso_to_dt_utc(rq.expected_start_at),
                                       _iso_to_dt_utc(Get(rq.expected_end_at)))
           THEN Return(c, "ValidationError", NoOrder) /\ sess' = sess
           ELSE IF window_end <= window_start
           THEN /\ Return(c, "text", _format_slots_text(sku, window_start, window_end, <<>>))
                /\ sess' = sess
           ELSE /\ Return(c, "text",
                          _format_slots_text(sku, window_start, window_end,
                              SlotsListed(OccupyingRows(sku), window_start, window_end,
                                          duration)))
                /\ sess' = [sess EXCEPT ![c] = get_session_exit(c, AutoBegin(@))]
    /\ UNCHANGED <<db, now, rag>>

\* -------------------------------------------------------------- behaviours
\* one call at a time: a call is issued when no other is under way
Quiet == \A c \in Callers : pc[c] = "ready"

CreateOrder == \E c \in Callers, in \in CreateInputs : Quiet /\ add_order_to_db(c, in)
CreateCommit == \E c \in Callers : add_order_commit(c)
CreateRefresh == \E c \in Callers : add_order_refresh(c)
EditOrder == \E c \in Callers, id \in OrderIds, p \in PatchInputs :
                Quiet /\ edit_order_from_db(c, id, p)
EditLoad == \E c \in Callers : edit_order_load(c)
EditCommit == \E c \in Callers : edit_order_commit(c)
CancelOrder == \E c \in Callers, id \in OrderIds, hard \in BOOLEAN :
                Quiet /\ cancel_order(c, id, hard)
MarkPaid == \E c \in Callers, id \in OrderIds : Quiet /\ mark_order_paid(c, id)
FinishOrder == \E c \in Callers, id \in OrderIds : Quiet /\ finish_order(c, id)
DeliverOrder == \E c \in Callers, id \in OrderIds, l \in LockerCodes :
                Quiet /\ deliver_order(c, id, l)
GetOrderDetail == \E c \in Callers, id \in OrderIds : Quiet /\ get_order_detail(c, id)
Taken == \E c \in Callers : Ack(c)
ClockTick == Quiet /\ Tick

\* requests: a start alone, [0,1), [4,12) given across two offsets, and an empty range
SlotTimes ==
    {<<UtcDt(2), None>>, <<NaiveDt(0), Some(NaiveDt(1))>>, <<PlusOne(5), Some(UtcDt(12))>>,
     <<UtcDt(2), Some(PlusOne(3))>>}
WindowDays == {-1, 0, 1, 9}
SlotRequests ==
    {[sku |-> sku, expected_start_at |-> t[1], expected_end_at |-> t[2], window_days |-> d] :
        sku \in {<<"w">>, <<" ", "W", " ">>, <<"b">>}, t \in SlotTimes, d \in WindowDays}
SuggestTimeSlots == \E c \in Callers, rq \in SlotRequests : Quiet /\ suggest_time_slots_text(c, rq)

Next ==
    \/ CreateOrder \/ CreateCommit \/ CreateRefresh
    \/ EditOrder \/ EditLoad \/ EditCommit
    \/ CancelOrder \/ MarkPaid \/ FinishOrder \/ DeliverOrder
    \/ GetOrderDetail \/ SuggestTimeSlots \/ Taken \/ ClockTick

\* one caller through the tool layer, one call after the other
Spec == Init /\ [][Next]_vars

\* ---- two independent callers through the tool layer, calls interleaved
RaceTimes == {<<UtcDt(0), UtcDt(1)>>, <<UtcDt(1), UtcDt(2)>>, <<UtcDt(7), UtcDt(8)>>}
RaceCreateInputs ==
    {CreateInput(id, <<"w">>, t, st, None, None) :
        id \in OrderIds, t \in RaceTimes, st \in {None, Some(CANCELED)}}
RacePatchInputs == {StatusPatch(PAID), [start_at |-> UtcDt(1), end_at |-> UtcDt(2)]}

RaceCreateOrder == \E c \in Callers, in \in RaceCreateInputs : add_order_to_db(c, in)
RaceEditOrder == \E c \in Callers, id \in OrderIds, p \in RacePatchInputs :
                    edit_order_from_db(c, id, p)
RaceCancelOrder == \E c \in Callers, id \in OrderIds, hard \in BOOLEAN : cancel_order(c, id, hard)
RaceFinishOrder == \E c \in Callers, id \in OrderIds : finish_order(c, id)
RaceGetOrderDetail == \E c \in Callers, id \in OrderIds : get_order_detail(c, id)

InitRace == InitWith(ToolCallers)

NextRace ==
    \/ RaceCreateOrder \/ CreateCommit \/ CreateRefresh
    \/ RaceEditOrder \/ EditLoad \/ EditCommit
    \/ RaceCancelOrder \/ RaceFinishOrder \/ RaceGetOrderDetail \/ Taken

SpecRace == InitRace /\ [][NextRace]_vars

\* ---- one caller that passes its own session to every call, as the tests do
OwnCreateInputs ==
    {CreateInput(id, <<"w">>, t, st, None, None) :
        id \in OrderIds, t \in {<<UtcDt(0), UtcDt(1)>>, <<UtcDt(7), UtcDt(8)>>},
        st \in {Some(RESERVED), Some(CANCELED)}}
OwnPatchInputs == {<<>>, StatusPatch(PAID), [start_at |-> UtcDt(1), end_at |-> UtcDt(2)]}

OwnCreateOrder == \E c \in Callers, in \in OwnCreateInputs : Quiet /\ add_order_to_db(c, in)
OwnEditOrder == \E c \in Callers, id \in OrderIds, p \in OwnPatchInputs :
                    Quiet /\ edit_order_from_db(c, id, p)

OwnSlotRequests ==
    {[sku |-> <<"w">>, expected_start_at |-> UtcDt(2), expected_end_at |-> e, window_days |-> d] :
        e \in {None, Some(UtcDt(2))}, d \in {0, 1}}
OwnSuggestTimeSlots ==
    \E c \in Callers, rq \in OwnSlotRequests : Quiet /\ suggest_time_slots_text(c, rq)

InitOwn == InitWith(SessionCallers)

NextOwn ==
    \/ OwnCreateOrder \/ CreateCommit \/ CreateRefresh
    \/ OwnEditOrder \/ EditLoad \/ EditCommit
    \/ CancelOrder \/ MarkPaid \/ FinishOrder \/ DeliverOrder
    \/ GetOrderDetail \/ OwnSuggestTimeSlots \/ Taken

SpecOwn == InitOwn /\ [][NextOwn]_vars

\* ================================================================ claims
Buffered(r) == [lo |-> r.start_at - r.buffer_hours, hi |-> r.end_at + r.buffer_hours]
Meet(a, b) == a.lo < b.hi /\ b.lo < a.hi
Occupying(r) == r.status \in {RESERVED, PAID, SHIPPED, OVERDUE}
Terminal(r) == r.status \in {SUCCESSFUL, CANCELED}
Stored(id) == {r \in db : r.order_id = id}
Finished(c, names) == pc[c] = "done" /\ op[c].name \in names

Wanted(c) ==
    IF op[c].name = "createOrder" THEN {InsertedRow(Payload(op[c].input), 0)}
    ELSE {SetAttrs(r, NormalizedPatch(r, op[c].patch)) : r \in Stored(op[c].order_id)}

\* an occupying row `w` whose buffered range meets that of another stored
\* occupying order of its sku, and which breaks no other rule
Clashes(c, w) ==
    /\ Occupying(w) /\ w.start_at < w.end_at
    /\ ~(w.status = SHIPPED /\ w.locker_code = "")
    /\ \E r \in db : /\ r.order_id # op[c].order_id /\ r.order_id # w.order_id
                     /\ r.sku = w.sku /\ Occupying(r)
                     /\ Meet(Buffered(r), Buffered(w))

\* C2: a createOrder, or an editOrder changing start_at, end_at, sku or
\* buffer_hours of a stored non-terminal order, that asks for a range meeting
\* another occupying order's ends with ConflictError.
C2_OverlapRejected ==
    \A c \in Callers :
        /\ Finished(c, {"createOrder", "editOrder"})
        /\ op[c].name = "editOrder" =>
              /\ DOMAIN op[c].patch \cap {"start_at", "end_at", "sku", "buffer_hours"} # {}
              /\ \E r \in Stored(op[c].order_id) : ~Terminal(r)
        /\ \E w \in Wanted(c) : Clashes(c, w)
        => res[c].kind = "ConflictError"

EditCalls == {"editOrder", "markPaid", "finishOrder", "cancelOrder", "deliverOrder"}
EmptyLocker(call) == call.name = "deliverOrder" /\ call.patch["locker_code"] = ""

\* C4 as written: every edit, mark-paid, deliver, finish or soft cancel of a
\* stored terminal order ends with TerminalOrderError, whatever the patch.
C4_AnyPatch ==
    \A c \in Callers :
        (Finished(c, EditCalls) /\ \E r \in Stored(op[c].order_id) : Terminal(r))
            => res[c].kind = "TerminalOrderError"

\* C4 amended: such a call with a non-empty patch (for deliverOrder a non-empty
\* locker code) returns TerminalOrderError and leaves the table as it was.
C4_TerminalRejected ==
    [][\A c \in Callers :
          (/\ pc[c] # "done" /\ pc'[c] = "done" /\ op'[c].name \in EditCalls
           /\ DOMAIN op'[c].patch # {} /\ ~EmptyLocker(op'[c])
           /\ \E r \in Stored(op'[c].order_id) : Terminal(r))
          => (res'[c].kind = "TerminalOrderError" /\ db' = db)]_vars

\* a canceled order was asked to be canceled again and the call was refused
C4_Witness ==
    \E c \in Callers :
        /\ Finished(c, {"cancelOrder"}) /\ res[c].kind = "TerminalOrderError"
        /\ \E r \in Stored(op[c].order_id) : r.status = CANCELED

\* C6: once a hard delete of a stored order has returned, the order is gone
\* from the table, so getOrderDetail finds nothing.
C6_HardDeleteRemoves ==
    \A c \in Callers :
        (Finished(c, {"hardDelete"}) /\ res[c].kind = "ok") => Stored(op[c].order_id) = {}

\* the instant a datetime argument denotes
When(dt) == IF dt.aware THEN dt.wall - dt.off ELSE dt.wall

\* the times an editOrder asks for, the stored value standing in for a missing one
Asked(patch, key, stored) == IF Has(patch, key) THEN When(patch[key]) ELSE stored

\* C7 as written: every editOrder whose patch gives start >= end ends with
\* ValidationError.
C7_AnyOrder ==
    \A c \in Callers :
        (/\ Finished(c, {"editOrder"})
         /\ Has(op[c].patch, "start_at") /\ Has(op[c].patch, "end_at")
         /\ When(op[c].patch["start_at"]) >= When(op[c].patch["end_at"]))
        => res[c].kind = "ValidationError"

\* C7 amended: a createOrder with start >= end, and an editOrder of a stored
\* non-terminal order whose patched times have start >= end, end with
\* ValidationError.
C7_RangeRejected ==
    \A c \in Callers :
        /\ (/\ Finished(c, {"createOrder"})
            /\ When(op[c].input.start_at) >= When(op[c].input.end_at))
           => res[c].kind = "ValidationError"
        /\ (/\ Finished(c, {"editOrder"})
            /\ Has(op[c].patch, "start_at") \/ Has(op[c].patch, "end_at")
            /\ \E r \in Stored(op[c].order_id) :
                  /\ ~Terminal(r)
                  /\ Asked(op[c].patch, "start_at", r.start_at)
                        >= Asked(op[c].patch, "end_at", r.end_at))
           => res[c].kind = "ValidationError"

\* an editOrder giving only end_at, no later than the stored start_at, was refused
C7_Witness ==
    \E c \in Callers :
        /\ Finished(c, {"editOrder"}) /\ DOMAIN op[c].patch = {"end_at"}
        /\ res[c].kind = "ValidationError"
        /\ \E r \in Stored(op[c].order_id) :
              ~Terminal(r) /\ When(op[c].patch["end_at"]) <= r.start_at

\* C8: deliverOrder with an empty locker code returns ValidationError at once,
\* whatever the order id: no statement is run and nothing changes.
C8_EmptyLockerRejected ==
    [][\A c \in Callers :
          (pc[c] = "ready" /\ pc'[c] # "ready" /\ EmptyLocker(op'[c]))
          => (/\ pc'[c] = "done" /\ res'[c].kind = "ValidationError"
              /\ db' = db /\ sess' = sess)]_vars

\* deliverOrder with an empty code was refused for a stored order
C8_Witness ==
    \E c \in Callers :
        /\ Finished(c, {"deliverOrder"}) /\ EmptyLocker(op[c])
        /\ res[c].kind = "ValidationError"
        /\ \E r \in Stored(op[c].order_id) : r.status = RESERVED

\* C9: deliverOrder with a code X on a stored non-terminal order succeeds and
\* leaves the order shipped with locker_code X.
C9_Delivered ==
    \A c \in Callers :
        (/\ Finished(c, {"deliverOrder"}) /\ ~EmptyLocker(op[c])
         /\ \E r \in Stored(op[c].order_id) : ~Terminal(r) /\ r.status # SHIPPED)
        => /\ res[c].kind = "ok"
           /\ \A r \in Stored(op[c].order_id) :
                 r.status = SHIPPED /\ r.locker_code = op[c].patch["locker_code"]

\* the Order getOrderDetail returns for the order a finished createOrder named
Detail(c) == _model_to_order(CHOOSE r \in Stored(op[c].order_id) : TRUE)

RoundTrip(c, sku) ==
    (Finished(c, {"createOrder"}) /\ res[c].kind = "ok")
        => /\ Stored(op[c].order_id) # {}
           /\ Detail(c).order_id = op[c].input.order_id
           /\ Detail(c).sku = sku
           /\ Detail(c).start_at_iso = Dt(When(op[c].input.start_at), TRUE, 0)
           /\ Detail(c).end_at_iso = Dt(When(op[c].input.end_at), TRUE, 0)

\* C10 as written: the order read back carries the sku given, uppercased.
C10_Uppercased == \A c \in Callers : RoundTrip(c, upper(op[c].input.sku))

\* C10 amended: the order read back after a successful createOrder carries the
\* same order_id, the sku trimmed and uppercased, and start_at/end_at as the
\* given instants in UTC.
C10_RoundTrip == \A c \in Callers : RoundTrip(c, upper(strip(op[c].input.sku)))

\* an order given with blanks around its sku and times east of UTC was created
C10_Witness ==
    \E c \in Callers :
        /\ Finished(c, {"createOrder"}) /\ res[c].kind = "ok"
        /\ op[c].input.sku # strip(op[c].input.sku)
        /\ op[c].input.start_at.off # 0

WellFormed(in) ==
    /\ When(in.start_at) < When(in.end_at)
    /\ ~(in.status = Some("shipped") /\ in.locker_code \in {None, Some("")})

C13_EmptyPatchRejected ==
    [][\A c \in Callers :
          (/\ pc[c] = "ready" /\ pc'[c] # "ready"
           /\ op'[c].name = "editOrder" /\ DOMAIN op'[c].patch = {})
          => (/\ pc'[c] = "done" /\ res'[c].kind = "ValidationError"
              /\ db' = db /\ sess' = sess)]_vars

\* editOrder with an empty patch was refused for an order_id that is not stored
C13_Witness ==
    \E c \in Callers :
        /\ Finished(c, {"editOrder"}) /\ DOMAIN op[c].patch = {}
        /\ res[c].kind = "ValidationError"
        /\ Stored(op[c].order_id) = {} /\ db # {}

\* C14: a soft cancelOrder of a stored non-terminal order succeeds and leaves
\* that order stored with status canceled and its other fields as they were.
C14_SoftCancel ==
    [][\A c \in Callers :
          (/\ pc[c] # "done" /\ pc'[c] = "done" /\ op'[c].name = "cancelOrder"
           /\ \E r \in Stored(op'[c].order_id) : ~Terminal(r))
          => /\ res'[c].kind = "ok"
             /\ \A r \in Stored(op'[c].order_id) :
                   db' = (db \ {r}) \cup {[r EXCEPT !.status = "canceled"]}]_vars

\* C15: getOrderDetail, editOrder with a non-empty patch, and cancelOrder,
\* soft or hard, end with NotFoundError when no stored order has the order_id,
\* and leave the table as it was.
C15_NotFound ==
    [][\A c \in Callers :
          (/\ pc[c] # "done" /\ pc'[c] = "done"
           /\ op'[c].name \in {"getOrderDetail", "editOrder", "cancelOrder", "hardDelete"}
           /\ op'[c].name = "editOrder" => DOMAIN op'[c].patch # {}
           /\ Stored(op'[c].order_id) = {})
          => (res'[c].kind = "NotFoundError" /\ db' = db)]_vars

\* a soft cancelOrder of an order_id that is not stored was refused
C15_Witness ==
    \E c \in Callers :
        /\ Finished(c, {"cancelOrder"}) /\ res[c].kind = "NotFoundError"
        /\ Stored(op[c].order_id) = {} /\ db # {}

WritingCalls ==
    {"createOrder", "editOrder", "cancelOrder", "hardDelete", "markPaid", "deliverOrder",
     "finishOrder"}

\* C16: a createOrder, editOrder, cancelOrder, markPaid, deliverOrder or
\* finishOrder that ends with an error has changed nothing in the table: the
\* step that ends it with the error leaves the table as it was, and the only
\* steps that change the table belong to calls that then return normally.
C16_FailureChangesNothing ==
    [][\A c \in Callers :
          /\ (/\ pc[c] # "done" /\ pc'[c] = "done"
              /\ op'[c].name \in WritingCalls /\ res'[c].kind # "ok")
             => db' = db
          /\ (pc'[c] # pc[c] /\ db' # db)
             => (pc'[c] = "add_refresh" \/ (pc'[c] = "done" /\ res'[c].kind = "ok"))
          /\ (pc[c] = "add_refresh" /\ pc'[c] = "done" /\ obj[c] \in db)
             => res'[c].kind = "ok"]_vars

\* a createOrder was refused for overlapping a stored order
C16_Witness ==
    \E c \in Callers :
        /\ Finished(c, {"createOrder"}) /\ res[c].kind = "ConflictError"
        /\ Stored(op[c].order_id) = {} /\ db # {}

\* what a finished suggestTimeSlots was asked: the duration, and the occupying
\* orders of the sku as stored
AskedDuration(c) ==
    IF IsNone(op[c].input.expected_end_at) THEN 3
    ELSE When(Get(op[c].input.expected_end_at)) - When(op[c].input.expected_start_at)
AskedRows(c) == {r \in db : r.sku = upper(strip(op[c].input.sku)) /\ Occupying(r)}
Listed(c) == Finished(c, {"suggestTimeSlots"}) /\ res[c].kind = "text"
SlotsOf(c) == {[lo |-> res[c].order.slots[i].start_at.wall,
                hi |-> res[c].order.slots[i].end_at.wall] : i \in DOMAIN res[c].order.slots}

\* C17: every slot suggestTimeSlots lists is at least as long as the duration
\* asked for, expectedEnd - expectedStart, or 3 hours when no end was given.
C17_SlotsFit ==
    \A c \in Callers :
        Listed(c) => \A s \in SlotsOf(c) : s.hi - s.lo >= AskedDuration(c)

\* a slot was listed while a shorter gap between two orders, inside the window,
\* was not
C17_Witness ==
    \E c \in Callers :
        /\ Listed(c) /\ SlotsOf(c) # {}
        /\ \E r1 \in AskedRows(c), r2 \in AskedRows(c) :
              /\ Buffered(r1).hi < Buffered(r2).lo
              /\ Buffered(r2).lo - Buffered(r1).hi < AskedDuration(c)
              /\ res[c].order.window_start.wall <= Buffered(r1).hi
              /\ Buffered(r2).lo <= res[c].order.window_end.wall

\* C18: no slot suggestTimeSlots lists meets the buffered range
\* [start_at - buffer_hours, end_at + buffer_hours) of a stored occupying order
\* of the sku asked about.
C18_SlotsFree ==
    \A c \in Callers :
        Listed(c) => \A s \in SlotsOf(c), r \in AskedRows(c) : ~Meet(s, Buffered(r))

\* a slot was listed that ends where the buffer before an order begins
C18_Witness ==
    \E c \in Callers :
        /\ Listed(c)
        /\ \E s \in SlotsOf(c), r \in AskedRows(c) :
              s.hi = Buffered(r).lo /\ r.buffer_hours > 0

\* two occupying orders of the sku asked about whose buffered ranges touch or
\* overlap, and the end of the span they block
Span(c) ==
    {<<r1, r2>> \in AskedRows(c) \X AskedRows(c) :
        /\ r1 # r2
        /\ Buffered(r1).lo <= Buffered(r2).lo /\ Buffered(r2).lo <= Buffered(r1).hi}
SpanEnd(p) == IF Buffered(p[1]).hi >= Buffered(p[2]).hi THEN Buffered(p[1]).hi
              ELSE Buffered(p[2]).hi

C20_ReadOnly ==
    [][\A c \in Callers :
          (pc[c] = "ready" /\ pc'[c] # "ready" /\ op'[c].name = "suggestTimeSlots")
          => (/\ pc'[c] = "done" /\ res'[c].kind \in {"text", "ValidationError"}
              /\ db' = db)]_vars

\* slots were listed through a session that holds an order not yet written,
\* beside a stored one
C20_Witness ==
    \E c \in Callers :
        /\ Listed(c) /\ SlotsOf(c) # {}
        /\ db # {} /\ sess[c].new # {}

\* ---- _merge_time_ranges by itself: a list sorted by start, merged, and the
\* ---- outcome merged again
RangesGiven == {TimeRange(s, e) : s \in 0..MaxT, e \in 0..MaxT}
\* the lists of at most n ranges in ascending order of start
RECURSIVE SortedListsOf(_)
SortedListsOf(n) ==
    IF n = 0 THEN {<<>>}
    ELSE LET shorter == SortedListsOf(n - 1)
             longest == {q \in shorter : Len(q) = n - 1}
         IN  shorter \cup
             {Append(p[1], p[2]) :
                 p \in {x \in longest \X RangesGiven :
                           x[1] = <<>> \/ x[1][Len(x[1])].start_at <= x[2].start_at}}
SortedLists == SortedListsOf(MaxLen)

InitMerge ==
    /\ rag = RulesRAG
    /\ db = {}
    /\ now = 0
    /\ pc = [c \in {"u1"} |-> "ready"]
    /\ op \in {[c \in {"u1"} |-> Call("mergeRanges", "", NoPatch, q)] : q \in SortedLists}
    /\ obj = [c \in {"u1"} |-> NoObj]
    /\ sess = [c \in {"u1"} |-> FreshSession]
    /\ res = [c \in {"u1"} |-> Result("none", NoOrder)]

MergeOnce ==
    \E c \in Callers :
        /\ pc[c] = "ready"
        /\ pc' = [pc EXCEPT ![c] = "merged"]
        /\ obj' = [obj EXCEPT ![c] = _merge_time_ranges(op[c].input)]
        /\ UNCHANGED <<db, now, rag, op, sess, res>>

MergeAgain ==
    \E c \in Callers :
        /\ pc[c] = "merged"
        /\ pc' = [pc EXCEPT ![c] = "done"]
        /\ res' = [res EXCEPT ![c] = Result("ranges", _merge_time_ranges(obj[c]))]
        /\ UNCHANGED <<db, now, rag, op, obj, sess>>

NextMerge == MergeOnce \/ MergeAgain

SpecMerge == InitMerge /\ [][NextMerge]_vars

\* C21: merging the outcome of a merge of a list sorted by start gives that
\* outcome again.
C21_MergeIdempotent ==
    \A c \in Callers :
        (pc[c] = "done" /\ op[c].name = "mergeRanges") => res[c].order = obj[c]

\* a list of three ranges that the first merge brought down to two was merged again
C21_Witness ==
    \E c \in Callers :
        /\ pc[c] = "done" /\ op[c].name = "mergeRanges"
        /\ Len(op[c].input) = 3 /\ Len(obj[c]) = 2 /\ Len(res[c].order) = 2

\* an editOrder patch that sets the status, with a locker_code when the status
\* set is shipped, and nothing else
SetsStatus(patch) ==
    /\ "status" \in DOMAIN patch /\ DOMAIN patch \subseteq {"status", "locker_code"}
    /\ patch["status"] = "shipped" => ("locker_code" \in DOMAIN patch /\ patch["locker_code"] # "")

\* C22: an editOrder setting the status of a stored non-terminal order to any
\* of the six statuses succeeds and leaves the order stored in that status.
C22_AnyTransition ==
    [][\A c \in Callers :
          (/\ pc[c] # "done" /\ pc'[c] = "done" /\ op'[c].name = "editOrder"
           /\ SetsStatus(op'[c].patch)
           /\ \E r \in Stored(op'[c].order_id) : ~Terminal(r))
          => /\ res'[c].kind = "ok"
             /\ \E r \in db' : r.order_id = op'[c].order_id
             /\ \A r \in db' : r.order_id = op'[c].order_id
                                  => r.status = op'[c].patch["status"]]_vars

\* C23: an editOrder of a stored non-terminal order whose patch sets status to
\* shipped and holds no non-empty locker_code does not succeed, whatever
\* locker_code the order carries already.
C23_ShippedNeedsLocker ==
    [][\A c \in Callers :
          (/\ pc[c] # "done" /\ pc'[c] = "done" /\ op'[c].name = "editOrder"
           /\ "status" \in DOMAIN op'[c].patch /\ op'[c].patch["status"] = "shipped"
           /\ ("locker_code" \in DOMAIN op'[c].patch => op'[c].patch["locker_code"] = "")
           /\ \E r \in Stored(op'[c].order_id) : ~Terminal(r))
          => res'[c].kind \notin {"ok", "none"}]_vars

\* the value a patch asks a column to take
PatchedValue(patch, k) ==
    IF k \in {"start_at", "end_at"} THEN When(patch[k])
    ELSE IF k = "sku" THEN upper(strip(patch[k]))
    ELSE patch[k]

\* C24: when an editOrder issued without a session of the caller's returns
\* normally, every field the patch names is stored with the patched value, so
\* that a later getOrderDetail reads it.
C24_EditCommitted ==
    [][\A c \in Callers :
          (/\ pc[c] # "done" /\ pc'[c] = "done" /\ op'[c].name = "editOrder"
           /\ res'[c].kind = "ok")
          => \E r \in db' :
                /\ r.order_id = PatchedValue([order_id |-> op'[c].order_id] @@ op'[c].patch,
                                             "order_id")
                /\ \A k \in DOMAIN op'[c].patch \ {"created_at", "updated_at"} :
                      r[k] = PatchedValue(op'[c].patch, k)]_vars

AfterPatch(r, patch) ==
    [k \in DOMAIN r |->
        IF k \in DOMAIN patch /\ k \notin {"created_at", "updated_at"}
        THEN PatchedValue(patch, k) ELSE r[k]]

\* C26: every stored order that is shipped carries a locker_code, and a
\* well-timed createOrder or editOrder that asks for a shipped order without
\* one ends with ConstraintError.
C26_ShippedHasLocker ==
    [][/\ \A r \in db' : r.status = "shipped" => r.locker_code # ""
       /\ \A c \in Callers :
             /\ (/\ pc[c] # "done" /\ pc'[c] = "done" /\ op'[c].name = "createOrder"
                 /\ When(op'[c].input.start_at) < When(op'[c].input.end_at)
                 /\ op'[c].input.status = Some("shipped")
                 /\ op'[c].input.locker_code \in {None, Some("")})
                => res'[c].kind = "ConstraintError"
             /\ (/\ pc[c] # "done" /\ pc'[c] = "done" /\ op'[c].name = "editOrder"
                 /\ DOMAIN op'[c].patch \subseteq {"status", "locker_code"}
                 /\ \E r \in Stored(op'[c].order_id) :
                       /\ ~Terminal(r)
                       /\ AfterPatch(r, op'[c].patch).status = "shipped"
                       /\ AfterPatch(r, op'[c].patch).locker_code = "")
                => res'[c].kind = "ConstraintError"]_vars

\* C27: when a createOrder, editOrder or cancelOrder has returned or raised,
\* the session it ran in holds no open transaction; the caller opens none
\* itself, so one that is open was opened by a call.
C27_ScopeReleased ==
    \A c \in Callers :
        Finished(c, {"createOrder", "editOrder", "cancelOrder", "hardDelete"})
            => ~sess[c].in_tx

\* C28: an editOrder of a stored non-terminal order whose patch sets order_id
\* to that of another stored order ends with ConflictError.
C28_RenameConflict ==
    [][\A c \in Callers :
          (/\ pc[c] # "done" /\ pc'[c] = "done" /\ op'[c].name = "editOrder"
           /\ DOMAIN op'[c].patch = {"order_id"}
           /\ op'[c].patch["order_id"] # op'[c].order_id
           /\ Stored(op'[c].patch["order_id"]) # {}
           /\ \E r \in Stored(op'[c].order_id) : ~Terminal(r))
          => res'[c].kind = "ConflictError"]_vars

\* the errors the table's rules call for when row w is to stand beside the
\* rows `others`
StorageErrors(others, w) ==
    (IF w.status = "shipped" /\ w.locker_code = "" THEN {"ConstraintError"} ELSE {})
    \cup (IF \E r \in others : r.order_id = w.order_id THEN {"ConflictError"} ELSE {})
    \cup (IF /\ Occupying(w)
             /\ \E r \in others : r.sku = w.sku /\ Occupying(r) /\ Meet(Buffered(r), Buffered(w))
          THEN {"ConflictError"} ELSE {})

\* the outcomes the fixed order of checks allows an editOrder(order_id, patch)
\* over the stored rows `rows`
FirstError(rows, order_id, patch) ==
    LET found == {r \in rows : r.order_id = order_id}
        r == CHOOSE x \in found : TRUE
        w == AfterPatch(r, patch)
    IN  IF DOMAIN patch = {} THEN {"ValidationError"}
        ELSE IF found = {} THEN {"NotFoundError"}
        ELSE IF Terminal(r) THEN {"TerminalOrderError"}
        ELSE IF DOMAIN patch \cap {"start_at", "end_at"} # {} /\ w.start_at >= w.end_at
        THEN {"ValidationError"}
        ELSE IF DOMAIN patch \subseteq {"created_at", "updated_at"} THEN {"ValidationError"}
        ELSE IF StorageErrors(rows \ found, w) # {} THEN StorageErrors(rows \ found, w)
        ELSE {"ok"}

\* C29: editOrder ends with the first error that applies, in the order: empty
\* patch, order absent, order terminal, invalid time range, patch empty once
\* created_at/updated_at are taken out, storage violation.
C29_FirstError ==
    [][\A c \in Callers :
          (pc[c] # "done" /\ pc'[c] = "done" /\ op'[c].name = "editOrder")
          => res'[c].kind \in FirstError(db, op'[c].order_id, op'[c].patch)]_vars

\* a createOrder about to insert: its row meets no stored occupying order of
\* its sku, names no stored order_id and breaks no other rule
FreeToInsert(c) ==
    LET in == op[c].input
        sku == upper(strip(in.sku))
        buffer == IF IsNone(in.buffer_hours) THEN 3 ELSE Get(in.buffer_hours)
        range == [lo |-> When(in.start_at) - buffer, hi |-> When(in.end_at) + buffer]
    IN  /\ WellFormed(in)
        /\ Stored(in.order_id) = {}
        /\ \A r \in db : (r.sku = sku /\ Meet(Buffered(r), range)) => ~Occupying(r)

\* what C30 asks of the orders' side and of the create's side
TerminalDoNotOccupy(c) ==
    /\ (/\ pc[c] # "done" /\ pc'[c] = "done" /\ res'[c].kind = "ok"
        /\ op'[c].name \in {"cancelOrder", "finishOrder", "hardDelete"})
       => \A r \in db' : r.order_id = op'[c].order_id => ~Occupying(r)
    /\ (/\ pc[c] = "add_commit" /\ pc'[c] # "add_commit" /\ ~sess[c].in_tx
        /\ FreeToInsert(c))
       => (pc'[c] = "add_refresh" /\ Stored(op[c].order_id)' # {})

\* C30: an order that was soft-canceled, finished or hard-deleted occupies no
\* longer, and a createOrder of its sku whose buffered range meets only orders
\* that do not occupy succeeds.
C30_TerminalFree == [][\A c \in Callers : TerminalDoNotOccupy(c)]_vars

\* ---- one caller through the tool layer choosing the buffer of its orders:
\* ---- ranges 4 and 6 hours apart, the default buffer and a negative one
BufferTimes ==
    {<<UtcDt(0), UtcDt(1)>>, <<UtcDt(5), UtcDt(6)>>, <<UtcDt(7), UtcDt(8)>>, <<UtcDt(0), UtcDt(3)>>}
BufferCreateInputs ==
    {CreateInput(id, <<"w">>, t, None, b, None) :
        id \in OrderIds, t \in BufferTimes, b \in {None, Some(-1)}}
BufferPatchInputs == {[buffer_hours |-> -1], [buffer_hours |-> 0]}

BufferCreateOrder == \E c \in Callers, in \in BufferCreateInputs : Quiet /\ add_order_to_db(c, in)
BufferEditOrder == \E c \in Callers, id \in OrderIds, p \in BufferPatchInputs :
                      Quiet /\ edit_order_from_db(c, id, p)

NextBuffer ==
    \/ BufferCreateOrder \/ CreateCommit \/ CreateRefresh
    \/ BufferEditOrder \/ EditLoad \/ EditCommit
    \/ Taken \/ ClockTick

SpecBuffer == Init /\ [][NextBuffer]_vars

\* a createOrder with the default status and buffer about to insert beside the
\* one stored order `r`, an occupying order of its sku with a 3-hour buffer
\* that ends `gap` hours before the new one starts
Apart(c, r, gap) ==
    LET in == op[c].input
    IN  /\ pc[c] = "add_commit" /\ ~sess[c].in_tx
        /\ db = {r} /\ Occupying(r) /\ r.buffer_hours = 3
        /\ r.sku = upper(strip(in.sku)) /\ r.order_id # in.order_id
        /\ IsNone(in.status) /\ IsNone(in.buffer_hours)
        /\ When(in.start_at) - r.end_at = gap

NewOrderRange(a, duration) == [lo |-> a - 3, hi |-> a + duration + 3]

\* every range of the asked duration inside a listed slot can be inserted with
\* the default buffer: beside the stored occupying orders of the sku its
\* buffered range meets none
Bookable(c) ==
    \A s \in SlotsOf(c) :
        \A a \in s.lo..(s.hi - AskedDuration(c)) :
            \A r \in AskedRows(c) : ~Meet(Buffered(r), NewOrderRange(a, AskedDuration(c)))

MaximalGaps(c) ==
    LET window_start == res[c].order.window_start.wall
        window_end == res[c].order.window_end.wall
        from == {window_start} \cup {Buffered(r).hi : r \in AskedRows(c)}
        to == {window_end} \cup {Buffered(r).lo : r \in AskedRows(c)}
    IN  {g \in [lo : from, hi : to] :
            /\ window_start <= g.lo /\ g.lo < g.hi /\ g.hi <= window_end
            /\ \A r \in AskedRows(c) : ~Meet(g, Buffered(r))
            /\ g.hi - g.lo >= AskedDuration(c)}

\* C33: suggestTimeSlots lists exactly the maximal free gaps of the window
\* that can hold the asked duration, each once, in ascending order and
\* disjoint from one another.
C33_ExactGaps ==
    \A c \in Callers :
        Listed(c) =>
            LET slots == res[c].order.slots
            IN  /\ SlotsOf(c) = MaximalGaps(c)
                /\ \A i \in DOMAIN slots, j \in DOMAIN slots :
                      i < j => slots[i].end_at.wall <= slots[j].start_at.wall
                /\ \A i \in DOMAIN slots : slots[i].start_at.wall < slots[i].end_at.wall

\* the gap between two stored orders and the gap behind them were listed, the
\* gap before them being too short
C33_Witness ==
    \E c \in Callers :
        /\ Listed(c) /\ Len(res[c].order.slots) = 2
        /\ \E r1 \in AskedRows(c), r2 \in AskedRows(c) :
              /\ [lo |-> Buffered(r1).hi, hi |-> Buffered(r2).lo] \in SlotsOf(c)
              /\ res[c].order.window_start.wall < Buffered(r1).lo

\* windowDays brought into [0, 7], in hours
ClampedHours(days) == 24 * (IF days < 0 THEN 0 ELSE IF days > 7 THEN 7 ELSE days)

\* the end asked for, 3 hours after the start when none was given
AskedEnd(c) ==
    IF IsNone(op[c].input.expected_end_at) THEN When(op[c].input.expected_start_at) + 3
    ELSE When(Get(op[c].input.expected_end_at))

\* C34: suggestTimeSlots answers for the window
\* [max(now, expectedStart - windowDays days), expectedEnd + windowDays days),
\* windowDays clamped into [0, 7]; every listed slot lies inside the window and
\* starts no earlier than now, and an empty window lists no slot.
C34_Window ==
    \A c \in Callers :
        Listed(c) =>
            LET from == When(op[c].input.expected_start_at) - ClampedHours(op[c].input.window_days)
                window_start == IF now >= from THEN now ELSE from
                window_end == AskedEnd(c) + ClampedHours(op[c].input.window_days)
            IN  /\ res[c].order.window_start.wall = window_start
                /\ res[c].order.window_end.wall = window_end
                /\ \A s \in SlotsOf(c) :
                      window_start <= s.lo /\ s.hi <= window_end /\ now <= s.lo
                /\ window_end <= window_start => SlotsOf(c) = {}

\* a listing asked with windowDays = 9, the clock having moved on, came back
\* with a slot
C34_Witness ==
    \E c \in Callers :
        /\ Listed(c) /\ op[c].input.window_days = 9 /\ SlotsOf(c) # {}
        /\ now > 0 /\ db # {}

\* a row suggestTimeSlots is not asked about: of another sku, or terminal
Irrelevant(c, r) == r.sku # upper(strip(op[c].input.sku)) \/ Terminal(r)

\* tables that differ from the stored one in such rows only: some of them
\* removed, or one more of them added
OtherTables(c) ==
    {db \ X : X \in SUBSET {r \in db : Irrelevant(c, r)}}
    \cup {db \cup {x} : x \in {r \in {InsertedRow(Payload(in), now) : in \in CreateInputs} :
                                  r.start_at < r.end_at /\ Irrelevant(c, r)}}

\* the answer suggestTimeSlots gives to the request of `c` over the table `rows`
AnswerOver(c, rows) ==
    LET rq == op[c].input
    IN  _format_slots_text(NormalizeSku(rq.sku), WindowStart(rq, now), WindowEnd(rq),
            SlotsListed(OccupyingRowsOf(rows, NormalizeSku(rq.sku)),
                        WindowStart(rq, now), WindowEnd(rq),
                        ExpectedEnd(rq) - ExpectedStart(rq)))

\* C35: the answer of suggestTimeSlots is the one it would give over any table
\* that differs from the stored one only in orders of other skus or in orders
\* with status successful or canceled.
C35_OnlyOccupyingOfSku ==
    \A c \in Callers :
        Listed(c) => \A rows \in OtherTables(c) : AnswerOver(c, rows) = res[c].order

\* a slot was listed across the range of a stored canceled order of the sku,
\* and across that of a stored order of another sku
C35_Witness ==
    \E c \in Callers :
        /\ Listed(c)
        /\ \E r \in db, s \in SlotsOf(c) :
              /\ r.sku = upper(strip(op[c].input.sku)) /\ Terminal(r)
              /\ s.lo <= r.start_at /\ r.end_at <= s.hi
        /\ \E r \in db, s \in SlotsOf(c) :
              /\ r.sku # upper(strip(op[c].input.sku)) /\ Occupying(r)
              /\ s.lo <= r.start_at /\ r.end_at <= s.hi

\* the instants a list of half-open ranges covers
Covered(ranges) ==
    UNION {ranges[i].start_at..(ranges[i].end_at - 1) : i \in DOMAIN ranges}

\* C36: for a list sorted ascending by start, _merge_time_ranges returns ranges
\* sorted ascending, each ending strictly before the next starts (ranges that
\* touch are made one), that cover exactly the instants the given ranges cover.
C36_MergePost ==
    \A c \in Callers :
        (pc[c] \in {"merged", "done"} /\ op[c].name = "mergeRanges") =>
            LET out == obj[c]
            IN  /\ \A i \in DOMAIN out, j \in DOMAIN out :
                      i < j => out[i].start_at <= out[j].start_at
                /\ \A i \in 1..(Len(out) - 1) : out[i].end_at < out[i + 1].start_at
                /\ Covered(out) = Covered(op[c].input)

\* three ranges given, the first two touching and made one, the third kept
\* apart behind a gap
C36_Witness ==
    \E c \in Callers :
        /\ pc[c] = "merged" /\ op[c].name = "mergeRanges"
        /\ Len(op[c].input) = 3 /\ Len(obj[c]) = 2
        /\ op[c].input[1].start_at < op[c].input[1].end_at
        /\ op[c].input[1].end_at = op[c].input[2].start_at
        /\ op[c].input[2].end_at < op[c].input[3].start_at
        /\ op[c].input[3].start_at < op[c].input[3].end_at

Normal(sku) == sku = upper(strip(sku))

\* C37: the sku of every stored order is its own trimmed, uppercased form, and
\* so is the sku of the instance a createOrder or an editOrder is about to
\* write and the sku suggestTimeSlots answers for.
C37_SkuNormalized ==
    /\ \A r \in db : Normal(r.sku)
    /\ \A c \in Callers :
          /\ pc[c] \in {"add_commit", "add_refresh"} => Normal(obj[c].sku)
          /\ pc[c] = "edit_commit" =>
                /\ Normal(obj[c].row.sku)
                /\ Has(op[c].patch, "sku") => obj[c].row.sku = upper(strip(op[c].patch["sku"]))
          /\ Listed(c) => res[c].order.sku = upper(strip(op[c].input.sku))

\* an order asked for as " W " is stored as "W" beside another order of "W"
C37_Witness ==
    \E c \in Callers :
        /\ Finished(c, {"createOrder"}) /\ res[c].kind = "ok"
        /\ op[c].input.sku = <<" ", "W", " ">>
        /\ \E r \in Stored(op[c].order_id) : r.sku = <<"W">>
        /\ \E r \in db : r.order_id # op[c].order_id /\ r.sku = <<"W">>

\* C38: every stored order has buffer_hours >= 0, a createOrder or editOrder
\* that asks for a negative one being refused, so that the buffered range of a
\* stored order holds its [start_at, end_at).
C38_BufferNonNegative ==
    \A r \in db :
        /\ r.buffer_hours >= 0
        /\ Buffered(r).lo <= r.start_at /\ r.end_at <= Buffered(r).hi

\* the fields of an order a patch leaves alone: those it does not name, and
\* created_at and updated_at whatever it says
Unnamed(patch) ==
    {"order_id", "user_name", "user_wechat", "sku", "start_at", "end_at", "buffer_hours",
     "status", "locker_code", "created_at", "updated_at"}
        \ (DOMAIN patch \ {"created_at", "updated_at"})

\* C39: an editOrder changes only the fields its patch names: the instance it
\* prepares for writing differs from the stored order in no other field and
\* never in created_at, and when it returns normally the stored order keeps
\* every field the patch does not name and every other stored order is as it
\* was.
C39_Frame ==
    [][\A c \in Callers :
          /\ (pc[c] = "edit_load" /\ pc'[c] = "edit_commit")
             => \E r \in Stored(op[c].order_id) :
                   \A k \in Unnamed(op[c].patch) : obj'[c].row[k] = r[k]
          /\ (/\ pc[c] # "done" /\ pc'[c] = "done"
              /\ op'[c].name \in EditCalls /\ res'[c].kind = "ok")
             => /\ \A r \in db : r.order_id # op'[c].order_id => r \in db'
                /\ \A r \in db : r.order_id = op'[c].order_id =>
                      \E r2 \in db' : \A k \in Unnamed(op'[c].patch) : r2[k] = r[k]
                /\ Cardinality(db') = Cardinality(db)]_vars

\* an editOrder whose patch names created_at and user_name has returned
\* normally, the order still carrying the created_at it was stored with, beside
\* another stored order
C39_Witness ==
    \E c \in Callers :
        /\ Finished(c, {"editOrder"}) /\ res[c].kind = "ok"
        /\ DOMAIN op[c].patch = {"created_at", "user_name"}
        /\ now > 0 /\ Cardinality(db) = 2
        /\ \E r \in Stored(op[c].order_id) :
              r.created_at = 0 /\ r.created_at # When(op[c].patch["created_at"])

\* ---- rules_rag: the warm-up thread main() starts and the threads serving
\* ---- rag_rules_tool, their steps interleaved
WarmUpThreads == {"warm"}
RagThreads == WarmUpThreads \cup ToolCallers

\* where _init_vectorstore returns to: query (line 156) or error (line 165)
AfterInit(caller) == IF caller = "query" THEN "query_store" ELSE "error_value"

\* main.py line 119: the thread whose target reads rules_rag.error
WarmUp(c) ==
    /\ c \in WarmUpThreads /\ pc[c] = "ready"
    /\ op' = [op EXCEPT ![c] = Call("warmUp", "", NoPatch, NoInput)]
    /\ pc' = [pc EXCEPT ![c] = "init_check"]
    /\ obj' = [obj EXCEPT ![c] = "error"]
    /\ UNCHANGED <<db, now, sess, res, rag>>

\* the tool going on to query whether the index is ready or not
rag_rules_tool_Unguarded(c) ==
    /\ c \in ToolCallers /\ pc[c] = "ready"
    /\ op' = [op EXCEPT ![c] = Call("ragRules", "", NoPatch, NoInput)]
    /\ pc' = [pc EXCEPT ![c] = "init_check"]
    /\ obj' = [obj EXCEPT ![c] = "query"]
    /\ res' = [res EXCEPT ![c] = Result("none", NoOrder)]
    /\ UNCHANGED <<db, now, sess, rag>>

\* tools.py lines 197-199: the answer while the index is not ready, or on to
\* rules_rag.query
rag_rules_tool(c) ==
    /\ c \in ToolCallers /\ pc[c] = "ready"
    /\ op' = [op EXCEPT ![c] = Call("ragRules", "", NoPatch, NoInput)]
    /\ IF ~rag._ready
       THEN Return(c, "initializing", NoOrder)
       ELSE /\ pc' = [pc EXCEPT ![c] = "init_check"]
            /\ obj' = [obj EXCEPT ![c] = "query"]
            /\ res' = [res EXCEPT ![c] = Result("none", NoOrder)]
    /\ UNCHANGED <<db, now, sess, rag>>

\* rag.py lines 62-63: if self._initialized: return
init_check(c) ==
    /\ pc[c] = "init_check"
    /\ pc' = [pc EXCEPT ![c] = IF rag._initialized THEN AfterInit(obj[c]) ELSE "init_set"]
    /\ UNCHANGED <<db, now, op, obj, sess, res, rag>>

\* line 64: self._initialized = True, and the body is begun
init_set(c) ==
    /\ pc[c] = "init_set"
    /\ rag' = [rag EXCEPT !._initialized = TRUE, !.entered = @ + 1]
    /\ pc' = [pc EXCEPT ![c] = "init_try"]
    /\ UNCHANGED <<db, now, op, obj, sess, res>>

\* lines 66-117: the rules file is empty (lines 69-70) or splits into nothing
\* (lines 105-106), the index is reused (lines 91-100), the target collection
\* is built (line 111), or something raises (lines 149-150)
init_try(c, outcome) ==
    /\ pc[c] = "init_try"
    /\ CASE outcome \in {"empty", "no_docs"} ->
                /\ rag' = [rag EXCEPT !._error = Some("empty")]
                /\ pc' = [pc EXCEPT ![c] = "init_ready"]
         [] outcome = "reuse" ->
                /\ rag' = [rag EXCEPT !._vectorstore = Some("alias")]
                /\ pc' = [pc EXCEPT ![c] = "init_ready"]
         [] outcome = "build" ->
                /\ rag' = [rag EXCEPT !._vectorstore = Some("target")]
                /\ pc' = [pc EXCEPT ![c] = "init_switch"]
         [] outcome = "raise" ->
                /\ rag' = [rag EXCEPT !._error = Some("exception")]
                /\ pc' = [pc EXCEPT ![c] = "init_ready"]
    /\ UNCHANGED <<db, now, op, obj, sess, res>>

\* lines 119-147: the alias is switched and the store set to it (line 138);
\* the switch may raise before that, the tidying up (lines 145-147) after it
init_switch(c, outcome) ==
    /\ pc[c] = "init_switch"
    /\ rag' = CASE outcome = "switched" -> [rag EXCEPT !._vectorstore = Some("alias")]
                [] outcome = "raise" -> [rag EXCEPT !._error = Some("exception")]
                [] outcome = "raise_late" ->
                       [rag EXCEPT !._vectorstore = Some("alias"), !._error = Some("exception")]
    /\ pc' = [pc EXCEPT ![c] = "init_ready"]
    /\ UNCHANGED <<db, now, op, obj, sess, res>>

\* lines 71, 101, 107, 148, 152: self._ready.set(), and the return
init_ready(c) ==
    /\ pc[c] = "init_ready"
    /\ rag' = [rag EXCEPT !._ready = TRUE]
    /\ pc' = [pc EXCEPT ![c] = AfterInit(obj[c])]
    /\ UNCHANGED <<db, now, op, obj, sess, res>>

\* rag.py lines 156-160 and tools.py lines 199-206: no store or no hit leads to
\* rules_rag.error, which goes through _init_vectorstore again (line 164)
query_store(c, hit) ==
    /\ pc[c] = "query_store"
    /\ IF ~IsNone(rag._vectorstore) /\ hit
       THEN Return(c, "found", NoOrder)
       ELSE /\ pc' = [pc EXCEPT ![c] = "init_check"]
            /\ obj' = [obj EXCEPT ![c] = "error"]
            /\ res' = res
    /\ UNCHANGED <<db, now, op, sess, rag>>

\* rag.py line 165: return self._error; tools.py lines 201-204 for the tool
error_value(c) ==
    /\ pc[c] = "error_value"
    /\ IF c \in WarmUpThreads THEN Return(c, "warm", NoOrder)
       ELSE IF ~IsNone(rag._error) THEN Return(c, "not_ready", NoOrder)
       ELSE Return(c, "no_hit", NoOrder)
    /\ UNCHANGED <<db, now, op, sess, rag>>

InitOutcomes == {"empty", "reuse", "no_docs", "build", "raise"}
SwitchOutcomes == {"switched", "raise", "raise_late"}

RagWarmUp == \E c \in Callers : WarmUp(c)
RagRulesTool == \E c \in Callers : rag_rules_tool(c)
RagInitCheck == \E c \in Callers : init_check(c)
RagInitSet == \E c \in Callers : init_set(c)
RagInitTry == \E c \in Callers, outcome \in InitOutcomes : init_try(c, outcome)
RagInitSwitch == \E c \in Callers, outcome \in SwitchOutcomes : init_switch(c, outcome)
RagInitReady == \E c \in Callers : init_ready(c)
RagQueryStore == \E c \in Callers, hit \in BOOLEAN : query_store(c, hit)
RagErrorValue == \E c \in Callers : error_value(c)
RagTaken == \E c \in Callers : c \in ToolCallers /\ Ack(c)

InitRag == InitWith(RagThreads)

NextRag ==
    \/ RagWarmUp \/ RagRulesTool
    \/ RagInitCheck \/ RagInitSet \/ RagInitTry \/ RagInitSwitch \/ RagInitReady
    \/ RagQueryStore \/ RagErrorValue \/ RagTaken

SpecRag == InitRag /\ [][NextRag]_vars

\* a thread serving rag_rules_tool
ServesTool(c) == c # "warm"

\* what a step of rules_rag is allowed to be: leaving the body of
\* _init_vectorstore only with ready set, setting ready only over a recorded
\* store or error, and the tool, ready being unset, answering at once and
\* touching nothing
RagStep(c) ==
    /\ (pc[c] \in {"init_try", "init_switch", "init_ready"}
        /\ pc'[c] \notin {"init_try", "init_switch", "init_ready"})
       => rag'._ready
    /\ (~rag._ready /\ rag'._ready)
       => (rag._vectorstore # <<>> \/ rag._error # <<>>)
    /\ (ServesTool(c) /\ pc[c] = "ready" /\ pc'[c] # "ready" /\ ~rag._ready)
       => (pc'[c] = "done" /\ res'[c].kind = "initializing" /\ rag' = rag)

\* C40: however the warm-up thread and the tool calls interleave, the body of
\* _init_vectorstore is begun at most once; ready is set on every way out of
\* it, and only once the vector store or the error is recorded; and while
\* ready is unset rag_rules_tool answers 'initializing' without beginning the
\* initialisation or waiting for it.
C40_InitOnce ==
    /\ [](/\ rag.entered <= 1
          /\ rag._ready => (rag._vectorstore # <<>> \/ rag._error # <<>>)
          /\ \A c \in Callers :
                ServesTool(c) => pc[c] \notin {"init_set", "init_try", "init_switch",
                                                "init_ready"})
    /\ [][\A c \in Callers : RagStep(c)]_vars

\* a tool call was answered 'initializing' while the warm-up thread, having
\* built the target collection, had not switched the alias yet
C40_Witness ==
    /\ pc["warm"] = "init_switch" /\ ~rag._ready /\ rag._vectorstore = <<"target">>
    /\ \E c \in Callers : ServesTool(c) /\ pc[c] = "done" /\ res[c].kind = "initializing"

====
